---- MODULE Spec2Model ----
(***************************************************************************)
(* Client-side form-security pipeline of the site: the useSecureForm hook  *)
(* (src/src/hooks/useScrollToTop.js, lines 18-132), the module-global rate *)
(* limiter and CSRF token manager it calls, and the VideoInquiryForm       *)
(* component (src/src/components/forms/VideoInquiryForm.jsx) that uses it. *)
(*                                                                         *)
(* The modules under src/security/ (rateLimiter, csrfProtection, honeypot, *)
(* botDetection, inputSanitization) are imported by the hook but are not   *)
(* part of the source tree; their operators are written from their         *)
(* contracts in spec.md sections 4.1-4.5.                                  *)
(*                                                                         *)
(* Also modelled: the submission service                                   *)
(* (src/src/services/formSubmissionService.js) and the scroll reset of     *)
(* PageWrapper (src/src/components/common/PageWrapper.jsx) and of          *)
(* useScrollToTop (src/src/hooks/useScrollToTop.js, lines 4-15).           *)
(*                                                                         *)
(* The specifications share the variables:                                 *)
(*   HookSpec      one useSecureForm instance whose consumer passes any    *)
(*                 form data, under its action key, to                     *)
(*                 performSecurityChecks;                                  *)
(*   CsrfSpec      the CSRF token manager behind getCSRFToken and          *)
(*                 addCSRFToForm;                                          *)
(*   Spec          one VideoInquiryForm instance with its useSecureForm    *)
(*                 hook;                                                   *)
(*   LiveSpec      Spec with the fairness of a handleSubmit invocation     *)
(*                 whose awaited promises settle;                          *)
(*   EmailSpec     the same form with the email typed one character at a   *)
(*                 time;                                                   *)
(*   HoneypotSpec  the same form with text put into its honeypot inputs;   *)
(*   ServiceSpec   calls of the functions of formSubmissionService;        *)
(*   ScrollSpec    route changes of a page inside PageWrapper, in an       *)
(*                 application that calls useScrollToTop.                  *)
(* Text values are sequences of one-character strings; time is in ms.      *)
(***************************************************************************)
EXTENDS Integers, Sequences, FiniteSets, TLC

VARIABLES
    now,                  \* Date.now()
    ticks,                \* number of clock advances so far (bounded)
    rate,                 \* rateLimiter records: action key -> [count, start]
    csrf,                 \* csrfProtection: [token, created]; token 0 = none
    effectRuns,           \* number of runs of the mount effect(s)
    actionKey,            \* the action key the hook's consumer passes to performSecurityChecks
    securityChecks,       \* useState, hook line 26
    isSecurityBlocked,    \* useState, hook line 34
    blockReason,          \* useState, hook line 35
    timingCheckRef,       \* useRef: start time of the timing check, -1 = null
    activityTrackerRef,   \* useRef: "null", "idle" (no event seen), "moved"
    botCheckPerformedRef, \* useRef, hook line 39
    botPromise,           \* detectBot() promise: "none", "pending", "bot", "human"
    detectBotCalls,       \* number of detectBot() calls made so far
    lastToken,            \* <<>> or <<the latest getCSRFToken call: token state before it, time, value returned>>
    formData,             \* useState, form line 6
    errors,               \* useState, form line 19
    isSubmitting,         \* useState, form line 20
    submitStatus,         \* useState, form line 21: "null", "success", "error"
    pc,                   \* position of handleSubmit: "idle", "awaitSecurity", "awaitFetch"
    sanitizedData,        \* the data passed to performSecurityChecks (local of handleSubmit, line 123)
    securityCheck,        \* local of handleSubmit, line 152: <<>> or <<result.passed>>
    inflight,             \* <<>> or <<body of the POST in flight>>
    svcCall,              \* the service function called: "none", "contact", "video", "log"
    svcPc,                \* its position: "idle", "awaitInsert", "awaitLog", "settled"
    insertError,          \* local { error } of the submission insert: <<>> = null, or <<message>>
    logCalls,             \* logSecurityEvent calls made by the call in progress
    securityLog,          \* rows handed to the insert into security_logs, in order
    svcResult,            \* <<>> while pending, then <<what the promise settled with>>
    svcCalls,             \* number of service calls so far (bounded)
    honeypotInputs,       \* DOM values of the honeypot inputs of the form, lines 230-232
    pathname,             \* location.pathname; "" before the first render
    navCount,             \* number of renders with a new pathname so far (bounded)
    scroll,               \* scroll position of the window: [top, left]
    pendingEffects,       \* passive effects of the last commit that have not run yet
    refreshTimers,        \* setTimeout calls of PageWrapper line 24 not fired yet, in order
    tweens,               \* entry tweens of PageWrapper lines 30-41 still in their delay, in order
    lastResetNav          \* the render whose PageWrapper effect ran last

hookVars == <<securityChecks, isSecurityBlocked, blockReason, timingCheckRef,
              activityTrackerRef, botCheckPerformedRef, botPromise, detectBotCalls>>
formVars == <<formData, errors, isSubmitting, submitStatus, pc, securityCheck, inflight>>
serviceVars == <<svcCall, svcPc, insertError, logCalls, securityLog, svcResult, svcCalls>>
\* The state the hook and the form never touch.
scrollVars == <<pathname, navCount, scroll, pendingEffects, refreshTimers, tweens, lastResetNav>>
restVars == <<serviceVars, honeypotInputs, scrollVars>>
vars == <<now, ticks, rate, csrf, effectRuns, actionKey, hookVars, sanitizedData, lastToken, formVars,
          restVars>>

----------------------------------------------------------------------------
(* Program constants *)

RateMaxAttempts == 5
RateWindowMs == 60000
MinSubmitTimeMs == 3000
CSRFLifetimeMs == 3600000
RefreshDelayMs == 100
TweenDelayMs == 300

(* Bounds of the model *)

MaxTicks == 1
MaxCsrfTicks == 2
MaxCount == 6
MaxEffectRuns == 2
MaxServiceCalls == 3
MaxEmailLen == 5
MaxNavigations == 2
MaxScrollTicks == 3

\* Clock advances: below and above the minimum submit time and the rate
\* window; below and above the token lifetime.
HookTickSteps == {2000, 61000}
CsrfTickSteps == {1000, 1800000, 3601000}

Null == <<>>
Str(s) == <<s>>

----------------------------------------------------------------------------
(* src/security/rateLimiter: spec.md 4.2 *)

ActionKeys == {"form_submit", "video_inquiry_submit"}

NoRecord == [count |-> 0, start |-> 0]

WindowExpired(rec, windowMs) == rec.count = 0 \/ now - rec.start >= windowMs

CeilDiv(a, b) == (a + b - 1) \div b

checkLimitCountingAllowedOnly(key, maxAttempts, windowMs) ==
    LET rec == rate[key]
        new == IF WindowExpired(rec, windowMs)
               THEN [count |-> 1, start |-> now]
               ELSE [count |-> rec.count + 1, start |-> rec.start]
    IN  [record     |-> IF new.count <= maxAttempts THEN new ELSE rec,
         allowed    |-> new.count <= maxAttempts,
         retryAfter |-> CeilDiv(new.start + windowMs - now, 1000)]

\* checkLimit(actionKey, maxAttempts, windowMs): the counter of the key is
\* incremented (a new window starts it at 1); the call is denied when the
\* counter exceeds maxAttempts.
checkLimit(key, maxAttempts, windowMs) ==
    LET rec == rate[key]
        new == IF WindowExpired(rec, windowMs)
               THEN [count |-> 1, start |-> now]
               ELSE [count |-> rec.count + 1, start |-> rec.start]
    IN  [record     |-> new,
         allowed    |-> new.count <= maxAttempts,
         retryAfter |-> CeilDiv(new.start + windowMs - now, 1000)]

----------------------------------------------------------------------------
(* src/security/csrfProtection: spec.md 4.5 *)

NoToken == [token |-> 0, created |-> 0]

\* getToken(): the stored token while it is younger than its lifetime,
\* otherwise a newly generated one. Tokens are random values: a generated
\* token differs from every token generated before it.
getToken ==
    IF csrf.token = 0 \/ now - csrf.created >= CSRFLifetimeMs
    THEN [token |-> csrf.token + 1, created |-> now]
    ELSE csrf

\* addTokenToForm(formElement): puts getToken() into a hidden field.
addTokenToForm == getToken

----------------------------------------------------------------------------
(* src/security/honeypot: spec.md 4.4 *)

HoneypotFields == {"website", "company_url", "email_confirm"}

FilledHoneypots(fd) == {f \in HoneypotFields \cap DOMAIN fd : fd[f] # <<>>}

validateHoneypot(fd) == [isBot |-> FilledHoneypots(fd) # {}]

\* addTimingCheck() returns a closure over its creation time; calling it
\* compares the time elapsed since then with the minimum.
addTimingCheck == now
TimingCheck(start) == [suspicious |-> now - start < MinSubmitTimeMs]

\* trackMouseMovement() returns a tracker that has seen no event yet.
trackMouseMovement == "idle"
isHuman(tracker) == tracker = "moved"

----------------------------------------------------------------------------
(* useSecureForm: src/src/hooks/useScrollToTop.js *)

InitialSecurityChecks ==
    [rateLimitPassed |-> TRUE, botDetectionPassed |-> TRUE, honeypotPassed |-> TRUE,
     timingPassed |-> TRUE, humanActivityDetected |-> TRUE]

RateLimitReason(retryAfter) ==
    <<"Rate limit exceeded. Try again in ", retryAfter, " seconds.">>
HoneypotReason == Str("Suspicious activity detected")
TimingReason == Str("Form submitted too quickly")
ActivityReason == Str("No human activity detected")
BotReason == Str("Bot detected")

\* lines 64-66
StartChecks == [checks |-> securityChecks, blocked |-> FALSE, reason |-> Null]

RateLimitCallLongWindow(action) == checkLimit(action, RateMaxAttempts, 10 * RateWindowMs)

\* line 68
RateLimitCall(action) == checkLimit(action, RateMaxAttempts, RateWindowMs)

AfterRateLimitNotBlocking(st, rateLimit) ==
    IF ~rateLimit.allowed
    THEN [st EXCEPT !.checks.rateLimitPassed = FALSE,
                    !.reason = RateLimitReason(rateLimit.retryAfter)]
    ELSE st

\* lines 69-73
AfterRateLimit(st, rateLimit) ==
    IF ~rateLimit.allowed
    THEN [checks  |-> [st.checks EXCEPT !.rateLimitPassed = FALSE],
          blocked |-> TRUE,
          reason  |-> RateLimitReason(rateLimit.retryAfter)]
    ELSE st

AfterHoneypotNotBlocking(st, fd) ==
    IF validateHoneypot(fd).isBot
    THEN [st EXCEPT !.checks.honeypotPassed = FALSE, !.reason = HoneypotReason]
    ELSE st

\* lines 75-80
AfterHoneypot(st, fd) ==
    IF validateHoneypot(fd).isBot
    THEN [checks  |-> [st.checks EXCEPT !.honeypotPassed = FALSE],
          blocked |-> TRUE,
          reason  |-> HoneypotReason]
    ELSE st

AfterTimingNotBlocking(st) ==
    IF timingCheckRef # -1 /\ TimingCheck(timingCheckRef).suspicious
    THEN [st EXCEPT !.checks.timingPassed = FALSE, !.reason = TimingReason]
    ELSE st

\* lines 82-89
AfterTiming(st) ==
    IF timingCheckRef # -1 /\ TimingCheck(timingCheckRef).suspicious
    THEN [checks  |-> [st.checks EXCEPT !.timingPassed = FALSE],
          blocked |-> TRUE,
          reason  |-> TimingReason]
    ELSE st

AfterActivityFirstReason(st) ==
    IF activityTrackerRef # "null" /\ ~isHuman(activityTrackerRef)
    THEN [checks  |-> [st.checks EXCEPT !.humanActivityDetected = FALSE],
          blocked |-> TRUE,
          reason  |-> IF st.blocked THEN st.reason ELSE ActivityReason]
    ELSE st

\* lines 91-98
AfterActivity(st) ==
    IF activityTrackerRef # "null" /\ ~isHuman(activityTrackerRef)
    THEN [checks  |-> [st.checks EXCEPT !.humanActivityDetected = FALSE],
          blocked |-> TRUE,
          reason  |-> ActivityReason]
    ELSE st

SecurityChecksRunShortCircuit(fd, action) ==
    LET rateLimit == RateLimitCall(action)
        s1 == AfterRateLimit(StartChecks, rateLimit)
        s2 == IF s1.blocked THEN s1 ELSE AfterHoneypot(s1, fd)
        s3 == IF s2.blocked THEN s2 ELSE AfterTiming(s2)
        st == IF s3.blocked THEN s3 ELSE AfterActivity(s3)
    IN  [record |-> rateLimit.record,
         result |-> [passed |-> ~st.blocked, reason |-> st.reason, checks |-> st.checks]]

\* lines 63-98 and 104-108: the four checks in sequence and the result
SecurityChecksRun(fd, action) ==
    LET rateLimit == RateLimitCall(action)
        st == AfterActivity(AfterTiming(AfterHoneypot(
                  AfterRateLimit(StartChecks, rateLimit), fd)))
    IN  [record |-> rateLimit.record,
         result |-> [passed |-> ~st.blocked, reason |-> st.reason, checks |-> st.checks]]

performSecurityChecksKeepingBlock(fd, action) ==
    LET run == SecurityChecksRun(fd, action)
    IN  /\ rate' = [rate EXCEPT ![action] = run.record]
        /\ securityChecks' = run.result.checks
        /\ isSecurityBlocked' = (isSecurityBlocked \/ ~run.result.passed)
        /\ blockReason' = IF run.result.passed THEN blockReason ELSE run.result.reason
        /\ sanitizedData' = fd

\* performSecurityChecks(formData, action), lines 63-109: the counter it
\* increments, the three states it sets (lines 100-102).
performSecurityChecks(fd, action) ==
    LET run == SecurityChecksRun(fd, action)
    IN  /\ rate' = [rate EXCEPT ![action] = run.record]
        /\ securityChecks' = run.result.checks
        /\ isSecurityBlocked' = ~run.result.passed
        /\ blockReason' = run.result.reason
        /\ sanitizedData' = fd

getCSRFTokenAlwaysNew == [token |-> csrf.token + 1, created |-> now]

\* lines 115-117
getCSRFToken == getToken

\* lines 119-121
addCSRFToForm == addTokenToForm

\* The mount effect, lines 41-54 (after the cleanup of lines 56-60 when the
\* effect is run again).
MountEffectUnguarded ==
    /\ timingCheckRef' = addTimingCheck
    /\ activityTrackerRef' = trackMouseMovement
    /\ botPromise' = IF botPromise = "none" THEN "pending" ELSE botPromise
    /\ detectBotCalls' = detectBotCalls + 1
    /\ botCheckPerformedRef' = TRUE
    /\ effectRuns' = effectRuns + 1
    /\ UNCHANGED <<securityChecks, isSecurityBlocked, blockReason>>

MountEffect ==
    /\ timingCheckRef' = addTimingCheck
    /\ activityTrackerRef' = trackMouseMovement
    /\ botPromise' = IF ~botCheckPerformedRef THEN "pending" ELSE botPromise
    /\ detectBotCalls' = IF ~botCheckPerformedRef THEN detectBotCalls + 1 ELSE detectBotCalls
    /\ botCheckPerformedRef' = TRUE
    /\ effectRuns' = effectRuns + 1
    /\ UNCHANGED <<securityChecks, isSecurityBlocked, blockReason>>

OnBotResultFlagOnly(isBot) ==
    IF isBot
    THEN [checks  |-> [securityChecks EXCEPT !.botDetectionPassed = FALSE],
          blocked |-> isSecurityBlocked,
          reason  |-> blockReason]
    ELSE [checks |-> securityChecks, blocked |-> isSecurityBlocked, reason |-> blockReason]

\* lines 46-52: the callback of the detectBot() promise, the states it sets
OnBotResult(isBot) ==
    IF isBot
    THEN [checks  |-> [securityChecks EXCEPT !.botDetectionPassed = FALSE],
          blocked |-> TRUE,
          reason  |-> BotReason]
    ELSE [checks |-> securityChecks, blocked |-> isSecurityBlocked, reason |-> blockReason]

\* The detectBot() promise of line 46 resolves.
BotCheckResolves(isBot) ==
    /\ botPromise = "pending"
    /\ botPromise' = IF isBot THEN "bot" ELSE "human"
    /\ securityChecks' = OnBotResult(isBot).checks
    /\ isSecurityBlocked' = OnBotResult(isBot).blocked
    /\ blockReason' = OnBotResult(isBot).reason
    /\ UNCHANGED <<now, ticks, rate, csrf, effectRuns, actionKey, restVars, timingCheckRef, activityTrackerRef,
                   botCheckPerformedRef, detectBotCalls, sanitizedData, lastToken, formVars>>

\* A pointer or key event reaches the listeners of the activity tracker.
MouseMove ==
    /\ activityTrackerRef = "idle"
    /\ activityTrackerRef' = "moved"
    /\ UNCHANGED <<now, ticks, rate, csrf, effectRuns, actionKey, restVars, securityChecks, isSecurityBlocked,
                   blockReason, timingCheckRef, botCheckPerformedRef, detectBotCalls, botPromise,
                   sanitizedData, lastToken, formVars>>

\* Time passes.
Tick(d) ==
    /\ now' = now + d
    /\ ticks' = ticks + 1
    /\ UNCHANGED <<rate, csrf, effectRuns, actionKey, restVars, hookVars, sanitizedData, lastToken, formVars>>

----------------------------------------------------------------------------
(* A consumer of the hook as in src/SECURITY_IMPLEMENTATION.md, lines
   148-182: it passes its form data and its action key to
   performSecurityChecks. *)

HookFormInputs ==
    { [website |-> w, company_url |-> <<>>, email_confirm |-> e, message |-> m] :
        w \in {<<>>, <<"x">>}, e \in {<<>>, <<"y">>}, m \in {<<>>, <<"h", "i">>} }

\* The effect runs at mount, and a second time right after it under
\* React's StrictMode.
HookMount ==
    /\ effectRuns < MaxEffectRuns
    /\ effectRuns > 0 => now = timingCheckRef
    /\ MountEffect
    /\ UNCHANGED <<now, ticks, rate, csrf, actionKey, restVars, sanitizedData, lastToken, formVars>>

HookCheck(fd) ==
    /\ effectRuns > 0
    /\ ~WindowExpired(rate[actionKey], RateWindowMs) => rate[actionKey].count < MaxCount
    /\ performSecurityChecks(fd, actionKey)
    /\ UNCHANGED <<now, ticks, csrf, effectRuns, actionKey, restVars, timingCheckRef, activityTrackerRef,
                   botCheckPerformedRef, detectBotCalls, botPromise, lastToken, formVars>>

HookGetToken ==
    /\ csrf' = getCSRFToken
    /\ lastToken' = <<[before |-> csrf, at |-> now, returned |-> getCSRFToken.token]>>
    /\ UNCHANGED <<now, ticks, rate, effectRuns, actionKey, restVars, hookVars, sanitizedData, formVars>>

HookAddCSRFToForm ==
    /\ csrf' = addCSRFToForm
    /\ UNCHANGED <<now, ticks, rate, effectRuns, actionKey, restVars, hookVars, sanitizedData, lastToken, formVars>>

----------------------------------------------------------------------------
(* Text: String.prototype.trim, the email pattern of validateForm, the URL
   parser *)

Letters == {"a", "b", "c", "f", "h", "p", "s", "t", "x"}
Digits == {"0", "1", "5"}

MinOf(S) == CHOOSE x \in S : \A y \in S : x <= y
MaxOf(S) == CHOOSE x \in S : \A y \in S : x >= y

\* s.trim()
Trim(s) ==
    LET solid == {i \in 1..Len(s) : s[i] # " "}
    IN  IF solid = {} THEN <<>> ELSE SubSeq(s, MinOf(solid), MaxOf(solid))

EmailPatternTestNoDomain(s) ==
    \E i \in 2..(Len(s) - 1) :
        /\ s[i] = "@"
        /\ \A k \in 1..Len(s) : s[k] # " " /\ (k # i => s[k] # "@")

\* /^[^\s@]+@[^\s@]+\.[^\s@]+$/.test(s), form line 59
EmailPatternTest(s) ==
    \E i \in 2..Len(s) :
        /\ s[i] = "@"
        /\ \A k \in 1..Len(s) : s[k] # " " /\ (k # i => s[k] # "@")
        /\ \E j \in (i + 2)..(Len(s) - 1) : s[j] = "."

\* The scheme of an absolute URL: the letters before the first ":".
UrlScheme(s) ==
    LET colons == {i \in 1..Len(s) : s[i] = ":"}
    IN  IF colons = {} THEN <<>> ELSE SubSeq(s, 1, MinOf(colons) - 1)

\* new URL(s) does not throw, form line 77: s (trimmed by the parser) is
\* an absolute URL, with a host when its scheme is http, https or ftp.
UrlParses(s) ==
    LET t == Trim(s)
        scheme == UrlScheme(t)
        rest == SubSeq(t, Len(scheme) + 2, Len(t))
    IN  /\ scheme # <<>>
        /\ \A k \in 1..Len(scheme) : scheme[k] \in Letters
        /\ scheme \in {<<"h","t","t","p">>, <<"h","t","t","p","s">>, <<"f","t","p">>}
              => \E k \in 1..Len(rest) : rest[k] \notin {"/", "\\"}

----------------------------------------------------------------------------
(* src/security/inputSanitization: spec.md 4.1 *)

RECURSIVE EscapeHtml(_)
EscapeHtml(s) ==
    IF s = <<>> THEN <<>>
    ELSE (CASE Head(s) = "<" -> <<"&", "l", "t", ";">>
            [] Head(s) = ">" -> <<"&", "g", "t", ";">>
            [] OTHER -> <<Head(s)>>) \o EscapeHtml(Tail(s))

\* A string value: HTML-unsafe characters neutralized, whitespace trimmed.
SanitizeString(v) == Trim(EscapeHtml(v))

\* The fields whose value is not a string (the consent checkbox).
BooleanFields == {"consentGiven"}

\* sanitizeFormData(formData): the same keys, each string value sanitized,
\* any other value as it is
sanitizeFormData(fd) ==
    [k \in DOMAIN fd |-> IF k \in BooleanFields THEN fd[k] ELSE SanitizeString(fd[k])]

\* validateEmail(email): local part, "@" and a dotted domain, made of the
\* characters an address may hold
validateEmail(s) ==
    [valid |-> /\ EmailPatternTest(s)
               /\ \A k \in 1..Len(s) :
                      s[k] \in Letters \cup Digits \cup {"@", ".", "-", "_", "+"}]

\* validatePhone(phone): what is left of it once the non-digits are
\* stripped is a number
validatePhone(s) == [valid |-> \E k \in 1..Len(s) : s[k] \in Digits]

\* validateURL(url): a URL of an allowed protocol
validateURL(s) ==
    [valid |-> /\ UrlParses(s)
               /\ UrlScheme(Trim(s)) \in {<<"h","t","t","p">>, <<"h","t","t","p","s">>}]

----------------------------------------------------------------------------
(* VideoInquiryForm: src/src/components/forms/VideoInquiryForm.jsx *)

\* lines 6-18 (and 179-191)
EmptyForm ==
    [fullName |-> <<>>, email |-> <<>>, phone |-> <<>>, companyName |-> <<>>,
     location |-> <<>>, projectType |-> <<>>, projectDetails |-> <<>>,
     sampleVideoLink |-> <<>>, preferredTimeline |-> <<>>, budget |-> <<>>,
     consentGiven |-> FALSE]

FieldNames == DOMAIN EmptyForm

\* errors: field name -> message, "" where the field has none
NoErrors == [k \in FieldNames |-> ""]

validateFormBlankNameAllowed(fd) ==
    [k \in FieldNames |->
        CASE k = "fullName" ->
               IF fd.fullName = <<>> THEN "Full name is required" ELSE ""
          [] k = "email" ->
               IF Trim(fd.email) = <<>> THEN "Email address is required"
               ELSE IF ~EmailPatternTest(fd.email) THEN "Please enter a valid email address"
               ELSE ""
          [] k = "location" ->
               IF Trim(fd.location) = <<>> THEN "Location is required" ELSE ""
          [] k = "projectType" ->
               IF fd.projectType = <<>> THEN "Please select a project type" ELSE ""
          [] k = "projectDetails" ->
               IF Trim(fd.projectDetails) = <<>> THEN "Project details are required" ELSE ""
          [] k = "sampleVideoLink" ->
               IF Trim(fd.sampleVideoLink) # <<>> /\ ~UrlParses(fd.sampleVideoLink)
               THEN "Please enter a valid URL" ELSE ""
          [] k = "consentGiven" ->
               IF ~fd.consentGiven THEN "You must agree to share your project details" ELSE ""
          [] OTHER -> ""]

\* validateForm, lines 50-86: newErrors
validateForm(fd) ==
    [k \in FieldNames |->
        CASE k = "fullName" ->
               IF Trim(fd.fullName) = <<>> THEN "Full name is required" ELSE ""
          [] k = "email" ->
               IF Trim(fd.email) = <<>> THEN "Email address is required"
               ELSE IF ~EmailPatternTest(fd.email) THEN "Please enter a valid email address"
               ELSE ""
          [] k = "location" ->
               IF Trim(fd.location) = <<>> THEN "Location is required" ELSE ""
          [] k = "projectType" ->
               IF fd.projectType = <<>> THEN "Please select a project type" ELSE ""
          [] k = "projectDetails" ->
               IF Trim(fd.projectDetails) = <<>> THEN "Project details are required" ELSE ""
          [] k = "sampleVideoLink" ->
               IF Trim(fd.sampleVideoLink) # <<>> /\ ~UrlParses(fd.sampleVideoLink)
               THEN "Please enter a valid URL" ELSE ""
          [] k = "consentGiven" ->
               IF ~fd.consentGiven THEN "You must agree to share your project details" ELSE ""
          [] OTHER -> ""]

\* line 88: Object.keys(newErrors).length === 0
IsValid(newErrors) == \A k \in FieldNames : newErrors[k] = ""

FormatErrorPhoneRequired(sd) ==
    IF sd.email # <<>> /\ ~validateEmail(sd.email).valid
    THEN <<"email", "Invalid email format">>
    ELSE IF ~validatePhone(sd.phone).valid
    THEN <<"phone", "Invalid phone format">>
    ELSE IF sd.sampleVideoLink # <<>> /\ ~validateURL(sd.sampleVideoLink).valid
    THEN <<"sampleVideoLink", "Invalid URL format">>
    ELSE <<>>

\* lines 125-150: the first format check that fails on the sanitized data,
\* as <<field, message>>, or <<>> when none does
FormatError(sd) ==
    IF sd.email # <<>> /\ ~validateEmail(sd.email).valid
    THEN <<"email", "Invalid email format">>
    ELSE IF sd.phone # <<>> /\ ~validatePhone(sd.phone).valid
    THEN <<"phone", "Invalid phone format">>
    ELSE IF sd.sampleVideoLink # <<>> /\ ~validateURL(sd.sampleVideoLink).valid
    THEN <<"sampleVideoLink", "Invalid URL format">>
    ELSE <<>>

\* handleChange(e), lines 91-104, for one change event <<name, value>>
handleChange(st, ev) ==
    [formData |-> [st.formData EXCEPT ![ev[1]] = ev[2]],
     errors   |-> IF st.errors[ev[1]] # "" THEN [st.errors EXCEPT ![ev[1]] = ""]
                  ELSE st.errors]

RECURSIVE handleChanges(_, _)
handleChanges(st, evs) ==
    IF evs = <<>> THEN st ELSE handleChanges(handleChange(st, Head(evs)), Tail(evs))

\* The runs of change events the user produces (typing into one field, or
\* filling the required fields in one go, as autofill does).
ValidEmail == <<"a", "@", "b", ".", "c">>
FillRun ==
    << <<"fullName", <<"a", "b">> >>, <<"email", ValidEmail>>,
       <<"location", <<"x">> >>, <<"projectType", <<"t">> >>,
       <<"projectDetails", <<" ", "<", "p">> >>, <<"consentGiven", TRUE>> >>
ChangeRuns ==
    { FillRun,
      << <<"fullName", <<" ">> >> >>,
      << <<"email", <<"<", "a", "@", "b", ".", "c">> >> >>,
      << <<"sampleVideoLink", <<"f", "t", "p", ":", "/", "/", "x">> >> >> }

\* Change events, each handled by handleChange; the inputs are disabled
\* while isSubmitting (line 242).
HandleChange(evs) ==
    /\ pc = "idle"
    /\ effectRuns > 0
    /\ ~isSubmitting
    /\ formData' = handleChanges([formData |-> formData, errors |-> errors], evs).formData
    /\ errors' = handleChanges([formData |-> formData, errors |-> errors], evs).errors
    /\ UNCHANGED <<now, ticks, rate, csrf, effectRuns, actionKey, restVars, hookVars, sanitizedData,
                   lastToken, isSubmitting, submitStatus, pc, securityCheck, inflight>>

\* Text is put into a honeypot input, lines 230-232. The inputs have no
\* value and no onChange prop: no handler runs and no state changes.
TypeIntoHoneypot(name, value) ==
    /\ pc = "idle"
    /\ effectRuns > 0
    /\ honeypotInputs[name] = <<>>
    /\ honeypotInputs' = [honeypotInputs EXCEPT ![name] = value]
    /\ UNCHANGED <<now, ticks, rate, csrf, effectRuns, actionKey, serviceVars, scrollVars, hookVars,
                   sanitizedData, lastToken, formVars>>

\* The mount effects of the component: the hook's (hook lines 41-54) and
\* the form's (lines 106-110). They run at mount, and a second time right
\* after it under React's StrictMode.
FormMount ==
    /\ effectRuns < MaxEffectRuns
    /\ effectRuns > 0 => now = timingCheckRef
    /\ pc = "idle"
    /\ MountEffect
    /\ csrf' = addCSRFToForm
    /\ UNCHANGED <<now, ticks, rate, actionKey, restVars, sanitizedData, lastToken, formVars>>

\* handleSubmit, lines 112-152: from the submit event to the first await.
\* The submit button is disabled while isSubmitting (line 437).
HandleSubmit ==
    /\ pc = "idle"
    /\ effectRuns > 0
    /\ ~isSubmitting
    /\ ~WindowExpired(rate[actionKey], RateWindowMs) => rate[actionKey].count < MaxCount
    /\ UNCHANGED <<now, ticks, csrf, effectRuns, actionKey, restVars, timingCheckRef, activityTrackerRef,
                   botCheckPerformedRef, detectBotCalls, botPromise, lastToken, formData, inflight>>
    /\ LET newErrors == validateForm(formData)
           sd == sanitizeFormData(formData)
       IN  IF ~IsValid(newErrors)
           THEN \* lines 115-117
                /\ errors' = newErrors
                /\ UNCHANGED <<rate, securityChecks, isSecurityBlocked, blockReason,
                               sanitizedData, isSubmitting, submitStatus, pc, securityCheck>>
           ELSE IF FormatError(sd) # <<>>
           THEN \* lines 119-150, 198-200
                /\ errors' = [newErrors EXCEPT ![FormatError(sd)[1]] = FormatError(sd)[2]]
                /\ isSubmitting' = FALSE
                /\ submitStatus' = "null"
                /\ UNCHANGED <<rate, securityChecks, isSecurityBlocked, blockReason,
                               sanitizedData, pc, securityCheck>>
           ELSE \* lines 119-152
                /\ errors' = newErrors
                /\ isSubmitting' = TRUE
                /\ submitStatus' = "null"
                /\ performSecurityChecks(sd, actionKey)
                /\ securityCheck' = <<SecurityChecksRun(sd, actionKey).result.passed>>
                /\ pc' = "awaitSecurity"

\* lines 162-164: FormData.append(key, value) stores the value as a string
FormDataEntries(sd) ==
    [k \in DOMAIN sd |->
        IF k \in BooleanFields
        THEN (IF sd[k] THEN <<"t", "r", "u", "e">> ELSE <<"f", "a", "l", "s", "e">>)
        ELSE sd[k]]

PostRequestOfRawData(sd, token) ==
    [body |-> [fields |-> FormDataEntries(formData), csrf |-> token], header |-> token]

\* lines 160-175: the request handed to fetch
PostRequest(sd, token) ==
    [body |-> [fields |-> FormDataEntries(sd), csrf |-> token], header |-> token]

\* handleSubmit, lines 154-175: from the result of performSecurityChecks to
\* the await of fetch
AfterSecurityChecks ==
    /\ pc = "awaitSecurity"
    /\ IF ~securityCheck[1]
       THEN \* lines 154-158, 198-200
            /\ submitStatus' = "error"
            /\ isSubmitting' = FALSE
            /\ pc' = "idle"
            /\ sanitizedData' = <<>>
            /\ UNCHANGED <<csrf, lastToken, inflight>>
       ELSE \* lines 160-175
            /\ csrf' = getCSRFToken
            /\ lastToken' = <<[before |-> csrf, at |-> now, returned |-> getCSRFToken.token]>>
            /\ inflight' = <<PostRequest(sanitizedData, getCSRFToken.token)>>
            /\ pc' = "awaitFetch"
            /\ UNCHANGED <<submitStatus, isSubmitting, sanitizedData>>
    /\ securityCheck' = <<>>
    /\ UNCHANGED <<now, ticks, rate, effectRuns, actionKey, restVars, hookVars, formData, errors>>

\* handleSubmit, lines 177-200: the fetch settles with response.ok, with
\* another response, or by rejecting
FetchOutcomes == {"ok", "not ok", "rejected"}

ResponseHandledAlwaysClearing(outcome) ==
    [submitStatus |-> IF outcome = "ok" THEN "success" ELSE "error", formData |-> EmptyForm]

\* lines 177-197: what the try block and the catch block set
ResponseHandled(outcome) ==
    IF outcome = "ok"
    THEN [submitStatus |-> "success", formData |-> EmptyForm]
    ELSE [submitStatus |-> "error", formData |-> formData]

FetchSettlesWithoutFinally(outcome) ==
    /\ pc = "awaitFetch"
    /\ submitStatus' = ResponseHandled(outcome).submitStatus
    /\ formData' = ResponseHandled(outcome).formData
    /\ isSubmitting' = (outcome = "rejected")
    /\ pc' = "idle"
    /\ sanitizedData' = <<>>
    /\ inflight' = <<>>
    /\ UNCHANGED <<now, ticks, rate, csrf, effectRuns, actionKey, restVars, hookVars, lastToken,
                   errors, securityCheck>>

FetchSettles(outcome) ==
    /\ pc = "awaitFetch"
    /\ submitStatus' = ResponseHandled(outcome).submitStatus
    /\ formData' = ResponseHandled(outcome).formData
    /\ isSubmitting' = FALSE
    /\ pc' = "idle"
    /\ sanitizedData' = <<>>
    /\ inflight' = <<>>
    /\ UNCHANGED <<now, ticks, rate, csrf, effectRuns, actionKey, restVars, hookVars, lastToken,
                   errors, securityCheck>>

----------------------------------------------------------------------------
(* src/src/services/formSubmissionService.js. The Supabase client is an
   external collaborator: an awaited insert answers { data, error: null },
   answers { error }, or rejects with an Error. One service call is
   followed at a time. *)

SubmitFunctions == {"contact", "video"}
InsertOutcomes == {"ok", "error", "rejected"}

\* A promise settled by fulfilling with a value or by rejecting with a reason
Fulfilled(v) == [state |-> "fulfilled", value |-> v]
Rejected(e) == [state |-> "rejected", reason |-> e]

\* The errors met: what a failing insert answers, what a rejecting one
\* throws, and what lines 57 and 117 throw
InsertFailure == [message |-> "insert failed"]
NetworkFailure == [message |-> "Failed to fetch"]
SubmitFailure(fn) ==
    [message |-> IF fn = "contact" THEN "Failed to submit form" ELSE "Failed to submit inquiry"]

\* lines 51 and 111: details.form
FormName(fn) == IF fn = "contact" THEN "contact" ELSE "video_inquiry"

\* lines 3-15 and 19: hashIPAddress(getClientIPAddress()), a constant
HashedClientIP == "hash of client-ip-hidden"

\* lines 47-55 and 107-115: the event logged when the insert answers an error
ErrorEvent(fn, error) ==
    [event_type |-> "form_submission_error", ip_address |-> HashedClientIP,
     details |-> <<FormName(fn), error.message>>, severity |-> "medium"]

\* lines 60-68 and 120-128: the event logged when the insert succeeded
SuccessEvent(fn) ==
    [event_type |-> "form_submission_success", ip_address |-> HashedClientIP,
     details |-> <<FormName(fn), "submission id">>, severity |-> "low"]

\* The events other callers log: one with every field, one with none
\* (lines 157-170 and any importer of logSecurityEvent).
DirectEvents ==
    { [event_type |-> "honeypot_triggered", ip_address |-> HashedClientIP,
       details |-> <<"user agent">>, severity |-> "high"],
      [event_type |-> "", ip_address |-> "", details |-> <<>>, severity |-> ""] }

\* lines 141-147: the row logSecurityEvent hands to the insert; a missing
\* (falsy) field gets its default
LogRow(eventData) ==
    [event_type |-> IF eventData.event_type = "" THEN "unknown" ELSE eventData.event_type,
     ip_address |-> eventData.ip_address,
     details    |-> eventData.details,
     severity   |-> IF eventData.severity = "" THEN "low" ELSE eventData.severity,
     created_at |-> now]

\* logSecurityEvent, lines 137-155: how its promise settles for each
\* outcome of its insert; an error answered (149-151) and a rejection
\* (152-154) are written to the console only
logSecurityEvent(outcome) == Fulfilled("undefined")

submitCatchRethrowing(error) == Rejected(error)

\* lines 71-74 and 131-134: the catch block of a submit function
submitCatch(error) == Fulfilled([success |-> FALSE, error |-> error.message])

\* lines 18-42 and 78-102: submitContactForm or submitVideoInquiry is
\* called and awaits its insert
SubmitCall(fn) ==
    /\ svcPc \in {"idle", "settled"}
    /\ svcCalls < MaxServiceCalls
    /\ svcCall' = fn
    /\ svcPc' = "awaitInsert"
    /\ insertError' = <<>>
    /\ logCalls' = 0
    /\ svcResult' = <<>>
    /\ svcCalls' = svcCalls + 1
    /\ UNCHANGED <<securityLog, now, ticks, rate, csrf, effectRuns, actionKey, hookVars,
                   sanitizedData, lastToken, formVars, honeypotInputs, scrollVars>>

\* lines 39-68 and 99-128: the insert of the submission settles
InsertSettles(outcome) ==
    /\ svcPc = "awaitInsert"
    /\ CASE outcome = "rejected" ->
              \* caught at line 71 / 131
              /\ svcResult' = <<submitCatch(NetworkFailure)>>
              /\ svcPc' = "settled"
              /\ UNCHANGED <<insertError, logCalls, securityLog>>
         [] outcome = "error" ->
              \* lines 44-55 / 104-115
              /\ insertError' = <<InsertFailure>>
              /\ securityLog' = Append(securityLog, LogRow(ErrorEvent(svcCall, InsertFailure)))
              /\ logCalls' = logCalls + 1
              /\ svcPc' = "awaitLog"
              /\ UNCHANGED svcResult
         [] outcome = "ok" ->
              \* lines 60-68 / 120-128
              /\ insertError' = <<>>
              /\ securityLog' = Append(securityLog, LogRow(SuccessEvent(svcCall)))
              /\ logCalls' = logCalls + 1
              /\ svcPc' = "awaitLog"
              /\ UNCHANGED svcResult
    /\ UNCHANGED <<svcCall, svcCalls, now, ticks, rate, csrf, effectRuns, actionKey, hookVars,
                   sanitizedData, lastToken, formVars, honeypotInputs, scrollVars>>

\* logSecurityEvent is called by another caller, lines 137-147
LogCall(eventData) ==
    /\ svcPc \in {"idle", "settled"}
    /\ svcCalls < MaxServiceCalls
    /\ svcCall' = "log"
    /\ svcPc' = "awaitLog"
    /\ insertError' = <<>>
    /\ logCalls' = 1
    /\ securityLog' = Append(securityLog, LogRow(eventData))
    /\ svcResult' = <<>>
    /\ svcCalls' = svcCalls + 1
    /\ UNCHANGED <<now, ticks, rate, csrf, effectRuns, actionKey, hookVars,
                   sanitizedData, lastToken, formVars, honeypotInputs, scrollVars>>

\* The insert into security_logs settles: logSecurityEvent settles, and a
\* submit function awaiting it goes on (lines 57, 70 / 117, 130) or, had
\* the await thrown, to its catch block
LogSettles(outcome) ==
    /\ svcPc = "awaitLog"
    /\ LET logged == logSecurityEvent(outcome)
       IN  svcResult' =
              IF svcCall = "log" THEN <<logged>>
              ELSE IF logged.state = "rejected" THEN <<submitCatch(logged.reason)>>
              ELSE IF insertError # <<>> THEN <<submitCatch(SubmitFailure(svcCall))>>
              ELSE <<Fulfilled([success |-> TRUE, data |-> <<"row">>])>>
    /\ svcPc' = "settled"
    /\ UNCHANGED <<svcCall, insertError, logCalls, securityLog, svcCalls, now, ticks, rate, csrf,
                   effectRuns, actionKey, hookVars, sanitizedData, lastToken, formVars, honeypotInputs, scrollVars>>


Start ==
    /\ now = 0
    /\ ticks = 0
    /\ rate = [k \in ActionKeys |-> NoRecord]
    /\ csrf = NoToken
    /\ effectRuns = 0
    /\ securityChecks = InitialSecurityChecks
    /\ isSecurityBlocked = FALSE
    /\ blockReason = Null
    /\ timingCheckRef = -1
    /\ activityTrackerRef = "null"
    /\ botCheckPerformedRef = FALSE
    /\ botPromise = "none"
    /\ detectBotCalls = 0
    /\ sanitizedData = <<>>
    /\ lastToken = <<>>
    /\ formData = EmptyForm
    /\ errors = NoErrors
    /\ isSubmitting = FALSE
    /\ submitStatus = "null"
    /\ pc = "idle"
    /\ securityCheck = <<>>
    /\ inflight = <<>>
    /\ svcCall = "none"
    /\ svcPc = "idle"
    /\ insertError = <<>>
    /\ logCalls = 0
    /\ securityLog = <<>>
    /\ svcResult = <<>>
    /\ svcCalls = 0
    /\ honeypotInputs = [k \in HoneypotFields |-> <<>>]
    /\ pathname = ""
    /\ navCount = 0
    /\ scroll = [top |-> 0, left |-> 0]
    /\ pendingEffects = {}
    /\ refreshTimers = <<>>
    /\ tweens = <<>>
    /\ lastResetNav = 0

HookInit == Start /\ actionKey \in ActionKeys

HookNext ==
    \/ HookMount
    \/ \E fd \in HookFormInputs : HookCheck(fd)
    \/ \E b \in BOOLEAN : BotCheckResolves(b)
    \/ MouseMove
    \/ \E d \in HookTickSteps : effectRuns > 0 /\ ticks < MaxTicks /\ Tick(d)

HookSpec == HookInit /\ [][HookNext]_vars

CsrfNext ==
    \/ HookGetToken
    \/ HookAddCSRFToForm
    \/ \E d \in CsrfTickSteps : ticks < MaxCsrfTicks /\ Tick(d)

CsrfSpec == HookInit /\ [][CsrfNext]_vars

ServiceNext ==
    \/ \E fn \in SubmitFunctions : SubmitCall(fn)
    \/ \E outcome \in InsertOutcomes : InsertSettles(outcome)
    \/ \E eventData \in DirectEvents : LogCall(eventData)
    \/ \E outcome \in InsertOutcomes : LogSettles(outcome)

ServiceSpec == HookInit /\ [][ServiceNext]_vars

\* VideoInquiryForm passes 'video_inquiry_submit' (line 152).
Init == Start /\ actionKey = "video_inquiry_submit"

\* Between the return of performSecurityChecks and the continuation of
\* handleSubmit only promise callbacks run.
Next ==
    \/ FormMount
    \/ \E evs \in ChangeRuns : HandleChange(evs)
    \/ HandleSubmit
    \/ AfterSecurityChecks
    \/ \E outcome \in FetchOutcomes : FetchSettles(outcome)
    \/ \E b \in BOOLEAN : BotCheckResolves(b)
    \/ pc # "awaitSecurity" /\ MouseMove
    \/ \E d \in HookTickSteps :
          effectRuns > 0 /\ pc # "awaitSecurity" /\ ticks < MaxTicks /\ Tick(d)

Spec == Init /\ [][Next]_vars

\* The same form where a handleSubmit invocation that is waiting goes on:
\* the continuation after performSecurityChecks is a promise callback, and
\* the fetch settles.
LiveSpec ==
    /\ Spec
    /\ WF_vars(AfterSecurityChecks)
    /\ WF_vars(\E outcome \in FetchOutcomes : FetchSettles(outcome))

\* The form with its email field typed one character at a time: every
\* text of up to MaxEmailLen characters of EmailAlphabet gets submitted.
EmailAlphabet == {"a", "1", "@", ".", " ", "<"}
OtherFieldsRun ==
    << <<"fullName", <<"a", "b">> >>, <<"location", <<"x">> >>, <<"projectType", <<"t">> >>,
       <<"projectDetails", <<"p">> >>, <<"consentGiven", TRUE>> >>

EmailNext ==
    \/ FormMount
    \/ formData.fullName = <<>> /\ HandleChange(OtherFieldsRun)
    \/ \E ch \in EmailAlphabet :
          /\ formData.fullName # <<>>
          /\ Len(formData.email) < MaxEmailLen
          /\ HandleChange(<< <<"email", Append(formData.email, ch)>> >>)
    \/ HandleSubmit
    \/ AfterSecurityChecks

EmailSpec == Init /\ [][EmailNext]_vars

\* The form as a script fills it: every input of the form element, the
\* honeypot inputs among them.
HoneypotNext ==
    \/ FormMount
    \/ HandleChange(FillRun)
    \/ \E name \in HoneypotFields : TypeIntoHoneypot(name, <<"x">>)
    \/ HandleSubmit
    \/ AfterSecurityChecks
    \/ \E outcome \in FetchOutcomes : FetchSettles(outcome)
    \/ pc # "awaitSecurity" /\ MouseMove
    \/ \E d \in HookTickSteps :
          effectRuns > 0 /\ pc # "awaitSecurity" /\ ticks < MaxTicks /\ Tick(d)

HoneypotSpec == Init /\ [][HoneypotNext]_vars

----------------------------------------------------------------------------
(* The scroll reset on route changes: PageWrapper
   (src/src/components/common/PageWrapper.jsx) around the page of the
   route, and useScrollToTop (src/src/hooks/useScrollToTop.js, lines 4-15)
   called by a component above it. Both read location.pathname and have an
   effect that depends on it. Effects run once per change of the pathname
   (a production build); React runs the layout effects of a commit, useGSAP's
   among them, in the commit, and its passive effects before the next
   render and before any timer set by them can fire. *)

Paths == {"/", "/contact", "/projects"}
ScrollPositions == [top : 0..1, left : 0..1]
ScrollTickSteps == {50, 100, 200}
PassiveEffects == {"PageWrapper", "useScrollToTop"}

\* After window.scrollTo({top: 0, left: 0, behavior: 'smooth'}) the
\* position is still the old one when the call returns.
ScrollToTopSmooth(position) == position

\* window.scrollTo({top: 0, left: 0, behavior: 'instant'}) and the two
\* scrollTop = 0 assignments, PageWrapper lines 17-21 and hook lines 9-13.
ScrollToTop(position) == [top |-> 0, left |-> 0]

\* React Router renders with a new location.pathname. The commit runs
\* useGSAP's callback (lines 27-42): the children are set to their start
\* values and the tween begins after its delay of 0.3 s. The scroll
\* position is the one the user left.
Navigate(path) ==
    /\ pendingEffects = {}
    /\ navCount < MaxNavigations
    /\ path # pathname
    /\ pathname' = path
    /\ navCount' = navCount + 1
    /\ tweens' = Append(tweens, [start |-> now + TweenDelayMs, nav |-> navCount + 1])
    /\ pendingEffects' = PassiveEffects
    /\ UNCHANGED <<scroll, refreshTimers, lastResetNav>>
    /\ UNCHANGED <<now, ticks, rate, csrf, effectRuns, actionKey, serviceVars, honeypotInputs,
                   hookVars, sanitizedData, lastToken, formVars>>

\* The effect of PageWrapper, lines 15-25.
PageWrapperEffect ==
    /\ "PageWrapper" \in pendingEffects
    /\ scroll' = ScrollToTop(scroll)
    /\ refreshTimers' = Append(refreshTimers, [due |-> now + RefreshDelayMs, nav |-> navCount])
    /\ lastResetNav' = navCount
    /\ pendingEffects' = pendingEffects \ {"PageWrapper"}
    /\ UNCHANGED <<pathname, navCount, tweens>>
    /\ UNCHANGED <<now, ticks, rate, csrf, effectRuns, actionKey, serviceVars, honeypotInputs,
                   hookVars, sanitizedData, lastToken, formVars>>

\* The effect of useScrollToTop, lines 7-14.
UseScrollToTopEffect ==
    /\ "useScrollToTop" \in pendingEffects
    /\ scroll' = ScrollToTop(scroll)
    /\ pendingEffects' = pendingEffects \ {"useScrollToTop"}
    /\ UNCHANGED <<pathname, navCount, refreshTimers, tweens, lastResetNav>>
    /\ UNCHANGED <<now, ticks, rate, csrf, effectRuns, actionKey, serviceVars, honeypotInputs,
                   hookVars, sanitizedData, lastToken, formVars>>

\* The user scrolls the page.
UserScrolls(position) ==
    /\ pendingEffects = {}
    /\ navCount > 0
    /\ position # scroll
    /\ scroll' = position
    /\ UNCHANGED <<pathname, navCount, pendingEffects, refreshTimers, tweens, lastResetNav>>
    /\ UNCHANGED <<now, ticks, rate, csrf, effectRuns, actionKey, serviceVars, honeypotInputs,
                   hookVars, sanitizedData, lastToken, formVars>>

\* The timer of line 24 fires: ScrollTrigger.refresh() measures the page at
\* the current scroll position. The timer has no cleanup, so the timer of
\* a route that was left fires as well.
RefreshFires ==
    /\ pendingEffects = {}
    /\ refreshTimers # <<>>
    /\ Head(refreshTimers).due <= now
    /\ refreshTimers' = Tail(refreshTimers)
    /\ UNCHANGED <<pathname, navCount, scroll, pendingEffects, tweens, lastResetNav>>
    /\ UNCHANGED <<now, ticks, rate, csrf, effectRuns, actionKey, serviceVars, honeypotInputs,
                   hookVars, sanitizedData, lastToken, formVars>>

\* The delay of an entry tween is over: the children start to fade in.
TweenStarts ==
    /\ pendingEffects = {}
    /\ tweens # <<>>
    /\ Head(tweens).start <= now
    /\ tweens' = Tail(tweens)
    /\ UNCHANGED <<pathname, navCount, scroll, pendingEffects, refreshTimers, lastResetNav>>
    /\ UNCHANGED <<now, ticks, rate, csrf, effectRuns, actionKey, serviceVars, honeypotInputs,
                   hookVars, sanitizedData, lastToken, formVars>>

\* Time passes, up to the next timer or tween that is due.
ScrollTick(d) ==
    /\ pendingEffects = {}
    /\ navCount > 0
    /\ ticks < MaxScrollTicks
    /\ \A i \in 1..Len(refreshTimers) : now + d <= refreshTimers[i].due
    /\ \A i \in 1..Len(tweens) : now + d <= tweens[i].start
    /\ Tick(d)

ScrollNext ==
    \/ \E path \in Paths : Navigate(path)
    \/ PageWrapperEffect
    \/ UseScrollToTopEffect
    \/ \E position \in ScrollPositions : UserScrolls(position)
    \/ RefreshFires
    \/ TweenStarts
    \/ \E d \in ScrollTickSteps : ScrollTick(d)

ScrollSpec == Init /\ [][ScrollNext]_vars

----------------------------------------------------------------------------
(* Properties of performSecurityChecks and of the mount-time bot check,
   under HookSpec. A performSecurityChecks call is a step that changes the
   rate limiter's record of the consumer's action key; the result it
   returns is {passed: !blocked, reason, checks} with the values the same
   call writes to isSecurityBlocked, blockReason and securityChecks. *)

CallStep == rate'[actionKey] # rate[actionKey]

\* The outcome of each check in the call being made, from its inputs.
RateDenied == rate'[actionKey].count > RateMaxAttempts
HoneypotFilled == FilledHoneypots(sanitizedData') # {}
TooQuick == timingCheckRef # -1 /\ now - timingCheckRef < MinSubmitTimeMs
NoActivity == activityTrackerRef = "idle"
IsRateLimitReason(r) == Len(r) = 3

\* C1: within one window the 1st to 5th call for a key are allowed and the
\* 6th is denied: on the 6th (and later) call of a window
\* performSecurityChecks sets rateLimitPassed to false and returns passed:
\* false; on calls 1 to 5 it leaves rateLimitPassed alone, gives no
\* rate-limit reason, and returns passed: true when the other checks pass.
C1_SixthAttemptDenied ==
    [][CallStep =>
        /\ \A k \in ActionKeys \ {actionKey} : rate'[k] = rate[k]
        /\ RateDenied =>
              /\ ~securityChecks'.rateLimitPassed
              /\ isSecurityBlocked'
        /\ ~RateDenied =>
              /\ securityChecks'.rateLimitPassed = securityChecks.rateLimitPassed
              /\ ~IsRateLimitReason(blockReason')
              /\ (~HoneypotFilled /\ ~TooQuick /\ ~NoActivity) => ~isSecurityBlocked'
        /\ (rate[actionKey].count > 0 /\ now - rate[actionKey].start < RateWindowMs) =>
              rate'[actionKey] = [count |-> rate[actionKey].count + 1,
                                  start |-> rate[actionKey].start]
      ]_vars

\* The 6th call of a window was made with nothing else wrong: it is
\* blocked, with the rate-limit reason.
C1_Witness ==
    /\ rate[actionKey].count = RateMaxAttempts + 1
    /\ ~securityChecks.rateLimitPassed
    /\ securityChecks.timingPassed /\ securityChecks.humanActivityDetected
    /\ isSecurityBlocked
    /\ IsRateLimitReason(blockReason)

C3_HoneypotBlocks ==
    [][(CallStep /\ HoneypotFilled) =>
        /\ validateHoneypot(sanitizedData').isBot
        /\ isSecurityBlocked'
        /\ ~securityChecks'.honeypotPassed
      ]_vars

\* A call with a filled honeypot field and a filled ordinary field was
\* blocked by the honeypot check alone.
C3_Witness ==
    /\ sanitizedData # <<>>
    /\ FilledHoneypots(sanitizedData) # {}
    /\ sanitizedData.message # <<>>
    /\ isSecurityBlocked
    /\ blockReason = HoneypotReason
    /\ ~securityChecks.honeypotPassed
    /\ securityChecks.timingPassed /\ securityChecks.humanActivityDetected

\* C4: a call made sooner after the mount effect than the minimum elapsed
\* time returns passed: false with checks.timingPassed = false, whatever
\* the form data is.
C4_TooQuickBlocks ==
    [][(CallStep /\ TooQuick) =>
        /\ isSecurityBlocked'
        /\ ~securityChecks'.timingPassed
      ]_vars

\* A call with clean form data and recorded activity was blocked by the
\* timing check alone.
C4_Witness ==
    /\ sanitizedData # <<>>
    /\ FilledHoneypots(sanitizedData) = {}
    /\ sanitizedData.message # <<>>
    /\ now - timingCheckRef < MinSubmitTimeMs
    /\ isSecurityBlocked
    /\ blockReason = TimingReason
    /\ ~securityChecks.timingPassed
    /\ securityChecks.honeypotPassed /\ securityChecks.humanActivityDetected

\* The reasons of the first and of the last failing check of the call
\* being made, in the order rate limit, honeypot, timing, activity.
CallRetryAfter == CeilDiv(rate'[actionKey].start + RateWindowMs - now, 1000)
FailCount ==
    (IF RateDenied THEN 1 ELSE 0) + (IF HoneypotFilled THEN 1 ELSE 0)
    + (IF TooQuick THEN 1 ELSE 0) + (IF NoActivity THEN 1 ELSE 0)
FirstFailReason ==
    IF RateDenied THEN RateLimitReason(CallRetryAfter)
    ELSE IF HoneypotFilled THEN HoneypotReason
    ELSE IF TooQuick THEN TimingReason
    ELSE ActivityReason
LastFailReason ==
    IF NoActivity THEN ActivityReason
    ELSE IF TooQuick THEN TimingReason
    ELSE IF HoneypotFilled THEN HoneypotReason
    ELSE RateLimitReason(CallRetryAfter)

\* C6 as stated: when two or more checks of a call fail, the reason is
\* that of the first failing check.
C6_FirstFailureWins ==
    [][(CallStep /\ FailCount >= 2) => blockReason' = FirstFailReason]_vars

\* C6 amended: when two or more checks of a call fail, the reason is that
\* of the last failing check in the order rate limit, honeypot, timing,
\* activity.
C6_LastFailureWins ==
    [][(CallStep /\ FailCount >= 2) => blockReason' = LastFailReason]_vars

\* The honeypot and the activity check failed in one call; the reason is
\* the activity check's.
C6_Witness ==
    /\ sanitizedData # <<>>
    /\ FilledHoneypots(sanitizedData) # {}
    /\ activityTrackerRef = "idle"
    /\ ~securityChecks.honeypotPassed /\ ~securityChecks.humanActivityDetected
    /\ isSecurityBlocked
    /\ blockReason = ActivityReason

\* C8: when the detectBot() promise resolves isBot: true the hook sets
\* isSecurityBlocked = true, blockReason = 'Bot detected' and
\* botDetectionPassed = false (the other flags as they were), whether or not
\* a submit was attempted; when it resolves isBot: false no state changes.
C8_BotVerdictBlocks ==
    [][/\ (botPromise = "pending" /\ botPromise' = "bot") =>
            /\ isSecurityBlocked'
            /\ blockReason' = BotReason
            /\ securityChecks' = [securityChecks EXCEPT !.botDetectionPassed = FALSE]
       /\ (botPromise = "pending" /\ botPromise' = "human") =>
            UNCHANGED <<securityChecks, isSecurityBlocked, blockReason, rate, csrf,
                        timingCheckRef, activityTrackerRef, botCheckPerformedRef>>
      ]_vars

\* The verdict isBot: true arrived before any submit attempt and blocked
\* the form.
C8_Witness ==
    /\ botPromise = "bot"
    /\ sanitizedData = <<>>
    /\ rate[actionKey].count = 0
    /\ isSecurityBlocked
    /\ blockReason = BotReason
    /\ ~securityChecks.botDetectionPassed

\* C9 as stated: each flag of result.checks reflects only the outcome of
\* the check run in that call.
C9_ChecksFreshPerCall ==
    [][CallStep =>
        /\ securityChecks'.rateLimitPassed = ~RateDenied
        /\ securityChecks'.honeypotPassed = ~HoneypotFilled
        /\ securityChecks'.timingPassed = ~TooQuick
        /\ securityChecks'.humanActivityDetected = ~NoActivity
      ]_vars

----------------------------------------------------------------------------
(* Properties of getCSRFToken, under CsrfSpec *)

\* C5: a getCSRFToken() call made less than one hour after the current
\* token was created returns that token; a call made after more than one
\* hour has elapsed since its creation returns a token distinct from it.
C5_TokenLifetime ==
    lastToken # <<>> =>
        LET call == lastToken[1]
            age == call.at - call.before.created
        IN  /\ (call.before.token # 0 /\ age < CSRFLifetimeMs) =>
                   call.returned = call.before.token
            /\ (call.before.token # 0 /\ age > CSRFLifetimeMs) =>
                   call.returned # call.before.token
            /\ call.returned # 0

\* A token was returned unchanged within its lifetime, and then replaced by
\* the first call after it expired.
C5_Witness ==
    /\ lastToken # <<>>
    /\ lastToken[1].before.token = 1
    /\ lastToken[1].before.created > 0
    /\ lastToken[1].at - lastToken[1].before.created > CSRFLifetimeMs
    /\ lastToken[1].returned = 2
    /\ csrf = [token |-> 2, created |-> now]

----------------------------------------------------------------------------
(* Properties of VideoInquiryForm, under Spec *)

\* C7 as stated: a form instance whose mount-time bot check has resolved
\* isBot: true issues no POST.
C7_NoPostOnceBotDetected ==
    [][botPromise = "bot" => ~(inflight = <<>> /\ inflight' # <<>>)]_vars

\* All required fields hold something and the consent box is ticked.
RequiredPopulated(fd) ==
    /\ fd.fullName # <<>> /\ fd.email # <<>> /\ fd.location # <<>>
    /\ fd.projectType # <<>> /\ fd.projectDetails # <<>>
    /\ fd.consentGiven

\* The required fields are not blank, the email is a well-formed address
\* that sanitization leaves valid, and the phone number and the sample link,
\* when given, are valid.
WellFormedInquiry(fd) ==
    /\ RequiredPopulated(fd)
    /\ \A k \in {"fullName", "location", "projectDetails"} : Trim(fd[k]) # <<>>
    /\ EmailPatternTest(fd.email) /\ validateEmail(SanitizeString(fd.email)).valid
    /\ SanitizeString(fd.phone) # <<>> => validatePhone(SanitizeString(fd.phone)).valid
    /\ Trim(fd.sampleVideoLink) # <<>> =>
          /\ UrlParses(fd.sampleVideoLink)
          /\ validateURL(SanitizeString(fd.sampleVideoLink)).valid

\* The POST is issued once the checks have passed, and a response that is
\* ok gives submitStatus = 'success'.
PostFollowsPass ==
    /\ (AfterSecurityChecks /\ securityCheck = <<TRUE>>) =>
          /\ inflight' = <<PostRequest(sanitizedData, csrf'.token)>>
          /\ sanitizedData = sanitizeFormData(formData)
    /\ FetchSettles("ok") => submitStatus' = "success"

\* C10 as stated: a submit with all required fields populated, no honeypot
\* field filled and a recorded pointer movement results in a POST and, when
\* it succeeds, in submitStatus = 'success'.
C10_FilledFormIsPosted ==
    [][/\ (HandleSubmit /\ RequiredPopulated(formData)
                        /\ FilledHoneypots(formData) = {}
                        /\ activityTrackerRef = "moved") =>
            (pc' = "awaitSecurity" /\ securityCheck' = <<TRUE>>)
       /\ PostFollowsPass
      ]_vars

\* C10 amended: so does a submit whose values moreover pass the format
\* validation, made later after mount than the minimum elapsed time and
\* being at most the 5th attempt of the rate-limit window.
C10_WellFormedTimelyFormIsPosted ==
    [][/\ (HandleSubmit /\ WellFormedInquiry(formData)
                        /\ FilledHoneypots(formData) = {}
                        /\ activityTrackerRef = "moved"
                        /\ now - timingCheckRef > MinSubmitTimeMs
                        /\ (WindowExpired(rate[actionKey], RateWindowMs)
                              \/ rate[actionKey].count < RateMaxAttempts)) =>
            (pc' = "awaitSecurity" /\ securityCheck' = <<TRUE>>)
       /\ PostFollowsPass
      ]_vars

\* A submit was posted and answered ok: the success message shows and the
\* form is empty again.
C10_Witness ==
    /\ submitStatus = "success"
    /\ formData = EmptyForm
    /\ pc = "idle"
    /\ rate[actionKey].count > 0
    /\ ~isSecurityBlocked
    /\ csrf.token # 0

\* C11: a submit whose validateForm fails returns with the form unsubmitted:
\* the errors of validateForm are shown (a full name that is empty or only
\* whitespace gives 'Full name is required'), and nothing is sanitized, no
\* performSecurityChecks call is made, no POST is issued, and isSubmitting,
\* submitStatus and formData stay as they were.
C11_InvalidFormStaysUnsubmitted ==
    [][HandleSubmit =>
        /\ ~IsValid(validateForm(formData)) =>
              /\ errors' = validateForm(formData)
              /\ UNCHANGED <<sanitizedData, rate, csrf, hookVars, isSubmitting, submitStatus,
                             formData, pc, securityCheck, inflight>>
        /\ Trim(formData.fullName) = <<>> =>
              /\ errors'.fullName = "Full name is required"
              /\ UNCHANGED <<sanitizedData, rate, csrf, hookVars, isSubmitting, submitStatus,
                             formData, pc, securityCheck, inflight>>
      ]_vars

\* A form complete but for a full name of whitespace only was submitted:
\* the inline error shows and nothing else happened.
C11_Witness ==
    /\ formData.fullName = <<" ">>
    /\ formData.email = ValidEmail /\ formData.consentGiven
    /\ errors.fullName = "Full name is required"
    /\ errors.email = ""
    /\ pc = "idle" /\ ~isSubmitting /\ submitStatus = "null"
    /\ rate[actionKey].count = 0
    /\ sanitizedData = <<>> /\ inflight = <<>>

----------------------------------------------------------------------------
(* Properties of formSubmissionService, under ServiceSpec *)

\* The insert of a submit function fails in this step: it answers an error
\* or it rejects.
InsertFails == InsertSettles("error") \/ InsertSettles("rejected")

\* C12 as stated: every transport error of the submission insert is
\* caught, logged by a call to the security-log sink, and surfaced as a
\* failure result.
C12_TransportErrorsLogged ==
    [][/\ InsertFails =>
            /\ logCalls' = logCalls + 1
            /\ Len(securityLog') = Len(securityLog) + 1
            /\ securityLog'[Len(securityLog')].event_type = "form_submission_error"
       /\ (svcCall \in SubmitFunctions /\ svcPc' = "settled" /\ svcPc # "settled"
              /\ (insertError # <<>> \/ InsertSettles("rejected"))) =>
            /\ svcResult'[1].state = "fulfilled"
            /\ ~svcResult'[1].value.success
      ]_vars

\* C13: the promise of submitContactForm, of submitVideoInquiry and of
\* logSecurityEvent never rejects, whatever the insert and the logging
\* insert do: logSecurityEvent resolves, and a submit function resolves to
\* {success: true, data} or to {success: false, error}.
C13_NeverRejects ==
    /\ svcPc = "settled" <=> svcResult # <<>>
    /\ svcPc = "settled" =>
          /\ svcResult[1].state = "fulfilled"
          /\ svcCall = "log" => svcResult[1].value = "undefined"
          /\ svcCall \in SubmitFunctions =>
                \/ /\ DOMAIN svcResult[1].value = {"success", "data"}
                   /\ svcResult[1].value.success
                \/ /\ DOMAIN svcResult[1].value = {"success", "error"}
                   /\ ~svcResult[1].value.success

\* A submit function whose insert was rejected has resolved to a failure,
\* after another whose insert and logging both went through resolved to a
\* success.
C13_Witness ==
    /\ svcPc = "settled"
    /\ svcCall \in SubmitFunctions
    /\ svcResult = <<Fulfilled([success |-> FALSE, error |-> NetworkFailure.message])>>
    /\ logCalls = 0
    /\ Len(securityLog) = 1
    /\ securityLog[1].event_type = "form_submission_success"

----------------------------------------------------------------------------
(* Properties of the email check of VideoInquiryForm, under EmailSpec *)

\* A well-formed address: a local part and two or more domain labels, all
\* of letters and digits, the labels separated by single dots.
WellFormedAddress(s) ==
    \E i \in 2..Len(s) :
        /\ s[i] = "@"
        /\ \A k \in 1..(i - 1) : s[k] \in Letters \cup Digits
        /\ \A k \in (i + 1)..Len(s) : s[k] \in Letters \cup Digits \cup {"."}
        /\ \E j \in (i + 2)..(Len(s) - 1) : s[j] = "."
        /\ s[i + 1] # "." /\ s[Len(s)] # "."
        /\ \A k \in (i + 1)..(Len(s) - 1) : ~(s[k] = "." /\ s[k + 1] = ".")

LacksAt(s) == \A k \in 1..Len(s) : s[k] # "@"

\* No '.' with text on both sides follows the first '@'.
LacksDomainSegment(s) ==
    \A i \in 1..Len(s) :
        (s[i] = "@" /\ \A k \in 1..(i - 1) : s[k] # "@") =>
            ~\E j \in (i + 2)..(Len(s) - 1) : s[j] = "."

----------------------------------------------------------------------------
(* Properties of the bot check of useSecureForm, under HookSpec *)

\* C15: a useSecureForm instance calls detectBot() exactly once, in the
\* first run of its mount effect: not in a second run of the effect and not
\* in performSecurityChecks; the botDetectionPassed flag a call returns in
\* result.checks is the verdict of that one check, when it has arrived.
C15_DetectBotOnce ==
    /\ [](detectBotCalls = IF effectRuns = 0 THEN 0 ELSE 1)
    /\ [][/\ detectBotCalls' # detectBotCalls => (effectRuns = 0 /\ effectRuns' = 1)
          /\ CallStep =>
                /\ UNCHANGED <<detectBotCalls, botPromise, botCheckPerformedRef>>
                /\ securityChecks'.botDetectionPassed = (botPromise # "bot")
         ]_vars

\* The mount effect ran twice and performSecurityChecks was called after
\* the verdict isBot: true arrived: still one detectBot() call.
C15_Witness ==
    /\ effectRuns = 2
    /\ detectBotCalls = 1
    /\ botPromise = "bot"
    /\ rate[actionKey].count > 1
    /\ ~securityChecks.botDetectionPassed

----------------------------------------------------------------------------
(* Further properties of performSecurityChecks, under HookSpec *)

\* C16: every call runs the rate-limit, the honeypot, the timing and the
\* activity check, in that order and without short-circuit: the counter of
\* the action key is updated, each check that fails sets its own flag to
\* false whether or not an earlier one failed, and the reason left is that
\* of the failing check that comes last in the order.
C16_NoShortCircuit ==
    [][CallStep =>
        /\ rate'[actionKey] = RateLimitCall(actionKey).record
        /\ RateDenied => ~securityChecks'.rateLimitPassed
        /\ HoneypotFilled => ~securityChecks'.honeypotPassed
        /\ TooQuick => ~securityChecks'.timingPassed
        /\ NoActivity => ~securityChecks'.humanActivityDetected
        /\ FailCount > 0 => blockReason' = LastFailReason
      ]_vars

\* All four checks failed in one call: it was the 6th of its window, with
\* a honeypot field filled, too soon after mount and with no activity.
C16_Witness ==
    /\ rate[actionKey].count = RateMaxAttempts + 1
    /\ sanitizedData # <<>>
    /\ FilledHoneypots(sanitizedData) # {}
    /\ now - timingCheckRef < MinSubmitTimeMs
    /\ activityTrackerRef = "idle"
    /\ securityChecks = [rateLimitPassed |-> FALSE, botDetectionPassed |-> TRUE,
                         honeypotPassed |-> FALSE, timingPassed |-> FALSE,
                         humanActivityDetected |-> FALSE]
    /\ blockReason = ActivityReason

\* C20: for every call, result.passed is true exactly when none of the four
\* checks failed in it, result.reason is null exactly when result.passed is
\* true, and the call sets isSecurityBlocked to the negation of
\* result.passed and blockReason to result.reason.
C20_ResultConsistent ==
    [][CallStep =>
        LET result == SecurityChecksRun(sanitizedData', actionKey).result
        IN  /\ result.passed = (FailCount = 0)
            /\ (result.reason = Null) = result.passed
            /\ isSecurityBlocked' = ~result.passed
            /\ blockReason' = result.reason
      ]_vars

\* A call that passed, made after the bot verdict had blocked the form:
\* the states hold the result of the call.
C20_Witness ==
    /\ botPromise = "bot"
    /\ rate[actionKey].count > 0
    /\ sanitizedData # <<>>
    /\ FilledHoneypots(sanitizedData) = {}
    /\ activityTrackerRef = "moved"
    /\ now - timingCheckRef >= MinSubmitTimeMs
    /\ ~isSecurityBlocked
    /\ blockReason = Null

----------------------------------------------------------------------------
(* Further properties of VideoInquiryForm, under Spec *)

\* A POST is issued in this step.
PostIssued == inflight = <<>> /\ inflight' # <<>>

\* C17: the body of every POST holds, under the keys of formData, the
\* values sanitizeData returned for them, plus the CSRF token as _csrf, and
\* never the raw values; the data is sanitized first, the format checks run
\* on the sanitized data, the security checks run only when the format
\* checks pass, and the POST follows only when the security checks pass.
C17_PostCarriesSanitizedData ==
    [][/\ PostIssued =>
            /\ pc = "awaitSecurity" /\ securityCheck = <<TRUE>>
            /\ sanitizedData = sanitizeFormData(formData)
            /\ FormatError(sanitizedData) = <<>>
            /\ DOMAIN inflight'[1].body.fields = DOMAIN formData
            /\ inflight'[1].body.fields = FormDataEntries(sanitizeFormData(formData))
            /\ inflight'[1].body.csrf = csrf'.token
            /\ inflight'[1].body.csrf # NoToken.token
       /\ HandleSubmit =>
            /\ FormatError(sanitizeFormData(formData)) # <<>> =>
                  /\ UNCHANGED <<rate, securityChecks, isSecurityBlocked, blockReason>>
                  /\ pc' = "idle"
            /\ pc' = "awaitSecurity" =>
                  /\ sanitizedData' = sanitizeFormData(formData)
                  /\ rate'[actionKey] # rate[actionKey]
      ]_vars

\* A POST is in flight whose project details differ from what the user
\* typed: the markup character is neutralized and the blank trimmed.
C17_Witness ==
    /\ pc = "awaitFetch"
    /\ inflight # <<>>
    /\ formData.projectDetails = <<" ", "<", "p">>
    /\ inflight[1].body.fields.projectDetails = <<"&", "l", "t", ";", "p">>
    /\ inflight[1].body.fields.consentGiven = <<"t", "r", "u", "e">>
    /\ inflight[1].body.csrf = csrf.token

----------------------------------------------------------------------------
(* Properties of the honeypot inputs of VideoInquiryForm, under
   HoneypotSpec *)

HoneypotInputFilled == \E name \in HoneypotFields : honeypotInputs[name] # <<>>

----------------------------------------------------------------------------
(* Properties of the scroll reset of PageWrapper and useScrollToTop, under
   ScrollSpec *)

\* C18: every change of location.pathname makes both effects run; each
\* leaves the window at top 0, left 0 when it returns; PageWrapper's effect
\* adds exactly one ScrollTrigger.refresh timer, due 100 ms later, and
\* useScrollToTop's adds none; a refresh timer fires, and an entry tween
\* (delay 0.3 s) starts, only after the scroll reset of its own render and
\* not before its delay is over.
C18_ScrollResetPrecedesRefresh ==
    [][ /\ pathname' # pathname => pendingEffects' = PassiveEffects
        /\ PageWrapperEffect =>
              /\ scroll' = [top |-> 0, left |-> 0]
              /\ Len(refreshTimers') = Len(refreshTimers) + 1
              /\ refreshTimers'[Len(refreshTimers')] = [due |-> now + 100, nav |-> navCount]
        /\ UseScrollToTopEffect =>
              /\ scroll' = [top |-> 0, left |-> 0]
              /\ refreshTimers' = refreshTimers
        /\ RefreshFires =>
              /\ Head(refreshTimers).nav <= lastResetNav
              /\ now >= Head(refreshTimers).due
        /\ TweenStarts =>
              /\ Head(tweens).nav <= lastResetNav
              /\ now >= Head(tweens).start
      ]_vars

\* Two route changes were made; the effects of both have run, their refresh
\* timers have fired, their tweens have started, and the window is at the
\* top.
C18_Witness ==
    /\ navCount = 2
    /\ lastResetNav = 2
    /\ now >= 300
    /\ refreshTimers = <<>>
    /\ tweens = <<>>
    /\ scroll = [top |-> 0, left |-> 0]

----------------------------------------------------------------------------
(* The bot verdict across later performSecurityChecks calls, under HookSpec *)

\* C21 as stated: once the mount-time bot check has resolved isBot: true,
\* every later performSecurityChecks call leaves isSecurityBlocked true,
\* blockReason set and securityChecks.botDetectionPassed false.
C21_BotBlockPersists ==
    [][(botPromise = "bot" /\ CallStep) =>
          /\ isSecurityBlocked'
          /\ blockReason' # Null
          /\ ~securityChecks'.botDetectionPassed]_vars

----------------------------------------------------------------------------
(* Properties of handleSubmit of VideoInquiryForm, under Spec and LiveSpec *)

InProgress == pc \in {"awaitSecurity", "awaitFetch"}

\* C22: isSubmitting is true only while a handleSubmit invocation that
\* passed validateForm is in progress: whenever no invocation is in progress
\* (none has started, or the last one has ended on any of its exit paths,
\* the failure of validateForm or of a format check among them)
\* isSubmitting is false; the step that ends an invocation leaves it false;
\* and a form that is submitting eventually is not, given that the fetch
\* settles.
C22_SubmittingOnlyWhileInProgress ==
    /\ [](isSubmitting => InProgress)
    /\ [][(InProgress /\ ~InProgress') => ~isSubmitting']_vars
    /\ isSubmitting ~> ~isSubmitting

\* An invocation passed every check, its fetch failed, and the handler has
\* ended: the form is not submitting.
C22_Witness ==
    /\ pc = "idle"
    /\ ~isSubmitting
    /\ submitStatus = "error"
    /\ rate[actionKey].count = 1
    /\ securityChecks = InitialSecurityChecks
    /\ inflight = <<>>

\* C23: submitStatus becomes 'success' and formData is reset to its initial
\* values only by the step that handles a response that is ok; a security
\* block, a response that is not ok and a rejected fetch give submitStatus
\* 'error' and leave formData as it was; an invocation issues at most one
\* POST: it is issued by the step that follows the security checks, and
\* none is issued while one is awaited.
C23_ResetOnlyOnOk ==
    [][ /\ (submitStatus' = "success" /\ submitStatus # "success") => FetchSettles("ok")
        /\ (formData' = EmptyForm /\ formData # EmptyForm) => FetchSettles("ok")
        /\ FetchSettles("ok") => (submitStatus' = "success" /\ formData' = EmptyForm)
        /\ (AfterSecurityChecks /\ ~securityCheck[1]) =>
              /\ submitStatus' = "error"
              /\ formData' = formData
              /\ inflight' = <<>>
        /\ (FetchSettles("not ok") \/ FetchSettles("rejected")) =>
              /\ submitStatus' = "error"
              /\ formData' = formData
        /\ inflight' # inflight =>
              \/ pc = "awaitSecurity" /\ inflight = <<>> /\ pc' = "awaitFetch"
              \/ pc = "awaitFetch" /\ inflight' = <<>> /\ pc' = "idle"
      ]_vars

\* A POST of a filled form failed: the status is 'error', the form still
\* holds what was typed and nothing is in flight.
C23_Witness ==
    /\ pc = "idle"
    /\ submitStatus = "error"
    /\ securityChecks = InitialSecurityChecks
    /\ rate[actionKey].count = 1
    /\ formData.fullName # <<>>
    /\ formData.consentGiven
    /\ inflight = <<>>

\* A handleSubmit invocation goes from the submit event to its await of
\* performSecurityChecks (line 152).
ReachesSecurityChecks == pc = "idle" /\ pc' = "awaitSecurity"

\* C24: a handleSubmit invocation that passes validateForm and the format
\* checks makes one checkLimit call on 'video_inquiry_submit' (the counter
\* goes up by one, or to 1 in a new window), whatever the honeypot, timing
\* and activity checks then find; an invocation stopped earlier, and every
\* other step of the form, leave the counter as it was.
C24_OneAttemptPerCheckedSubmit ==
    [][IF ReachesSecurityChecks
       THEN /\ IsValid(validateForm(formData))
            /\ FormatError(sanitizeFormData(formData)) = <<>>
            /\ actionKey = "video_inquiry_submit"
            /\ rate'[actionKey].count =
                  IF WindowExpired(rate[actionKey], 60000) THEN 1 ELSE rate[actionKey].count + 1
            /\ \A k \in ActionKeys \ {actionKey} : rate'[k] = rate[k]
       ELSE rate' = rate]_vars

\* Two invocations were blocked by the timing check and counted; a third
\* was stopped by the email format check and was not.
C24_Witness ==
    /\ rate[actionKey].count = 2
    /\ ~securityChecks.timingPassed
    /\ errors.email = "Invalid email format"
    /\ pc = "idle"

====
